---- MODULE Spec2Model ----
(***************************************************************************)
(* Dynamic komi strategies of the UCT engine (src/uct/dynkomi.c): the      *)
(* NONE, LINEAR and ADAPTIVE strategies, their constructors with the       *)
(* option parser, and the per-move / per-simulation operations.            *)
(*                                                                         *)
(* Numbers.  The C floats (komi values, means, zones, rates) are held as   *)
(* fixed-point integers with Scale units per point; C ints (moves, steps,  *)
(* ages, playouts) are plain integers.                                     *)
(***************************************************************************)
EXTENDS Integers, Sequences, FiniteSets, TLC

VARIABLES status, d, l, a, score, value, tree, board, call, hist, race

vars == <<status, d, l, a, score, value, tree, board, call, hist, race>>

----------------------------------------------------------------------------
(* Float arithmetic in fixed point *)

\* units per point of a float held as an integer
Scale == 1000

\* IEEE results of a float division by zero (line 64 when l->moves is 0)
FloatNaN == 2000000001
FloatInf == 2000000002

Abs(x) == IF x < 0 THEN -x ELSE x

Sgn(x) == IF x < 0 THEN -1 ELSE IF x > 0 THEN 1 ELSE 0

\* x / y rounded to the nearest integer, halves away from zero (y # 0)
DivRound(x, y) == Sgn(x) * Sgn(y) * ((2 * Abs(x) + Abs(y)) \div (2 * Abs(y)))

\* float x / y
FDiv(x, y) ==
    IF y = 0 THEN (IF x = 0 THEN FloatNaN ELSE Sgn(x) * FloatInf)
    ELSE DivRound(x, y)

\* product of two fixed-point floats
FMul(x, y) == DivRound(x * y, Scale)

\* round() of a fixed-point float to an int: nearest, halves away from zero
round(x) == DivRound(x, Scale)

\* round(x * y) of two fixed-point floats: the product is rounded once
RoundMul(x, y) == DivRound(x * y, Scale * Scale)

----------------------------------------------------------------------------
(* Collaborators declared outside dynkomi.c *)

S_BLACK == "S_BLACK"
S_WHITE == "S_WHITE"
Colors == {S_BLACK, S_WHITE}

stone_other(color) == IF color = S_BLACK THEN S_WHITE ELSE S_BLACK

\* value of a komi in the frame of color, and back (an involution)
komi_by_color(komi, color) == IF color = S_BLACK THEN komi ELSE -komi

\* handicap-derived komi of a board: stones, or 1 in an even game, times the
\* stone value, plus half a point, minus the board's komi
board_effective_handicap(b, first_move_value) ==
    (IF b.handicap # 0 THEN b.handicap ELSE 1) * first_move_value * Scale
        + Scale \div 2 - b.komi

\* struct move_stats of a freshly calloc'ed strategy
StatsZero == [playouts |-> 0, value |-> 0]

----------------------------------------------------------------------------
(* Option text *)

\* strcasecmp() compares without regard to case: lower-casing of the names
\* that occur in the option texts of the model
ToLower(s) ==
    CASE s = "MOVES" -> "moves"
      [] s = "Indicator" -> "indicator"
      [] s = "VALUE" -> "value"
      [] OTHER -> s

strcasecmp(s1, s2) == IF ToLower(s1) = ToLower(s2) THEN 0 ELSE 1

\* atoi(): leading decimal integer of the text, 0 when there is none
atoi(s) ==
    CASE s = "0" -> 0
      [] s = "1" -> 1
      [] s = "2" -> 2
      [] s = "3" -> 3
      [] s = "4" -> 4
      [] s = "-1" -> -1
      [] s = "0.5" -> 0
      [] s = "1.5" -> 1
      [] OTHER -> 0

\* atof(): leading decimal number of the text as a float, 0 when there is none
atof(s) ==
    CASE s = "0.5" -> Scale \div 2
      [] s = "1.5" -> Scale + Scale \div 2
      [] OTHER -> atoi(s) * Scale

\* One optspec of the option text: the text between two ':' (lines 99-102),
\* cut at its first '=' (lines 104-106).  eq is FALSE when there is no '=',
\* and optval is then NULL.
Token(name, eq, val) == [name |-> name, eq |-> eq, val |-> val]

Opt(name) == Token(name, FALSE, "")

OptVal(name, val) == Token(name, TRUE, val)

\* char *arg: NULL, or the text as its sequence of optspecs
NullArg == [isNull |-> TRUE, text |-> <<>>]

Arg(text) == [isNull |-> FALSE, text |-> text]

----------------------------------------------------------------------------
(* Strategy objects *)

\* no struct uct_dynkomi: nothing was returned
NullStrategy == [permove |-> "NULL", persim |-> "NULL", done |-> "NULL", data |-> "NULL"]

\* struct dynkomi_linear after calloc
LinearZero == [handicap_value |-> 0, moves |-> 0, rootbased |-> FALSE]

\* struct dynkomi_adaptive after calloc
AdaptiveZero ==
    [lead_moves |-> 0, max_losing_komi |-> 0, indicator |-> "NULL",
     zone_red |-> 0, zone_green |-> 0, score_step |-> 0, score_step_byavg |-> 0,
     use_komi_ratchet |-> FALSE, komi_ratchet_maxage |-> 0,
     komi_ratchet_age |-> 0, komi_ratchet |-> 0,
     adapter |-> "NULL", adapt_base |-> 0, adapt_phase |-> 0, adapt_rate |-> 0,
     adapt_aport |-> FALSE, adapt_moves |-> 0, adapt_dir |-> 0]

\* minimum number of playouts for a statistic to be trusted
TRUSTWORTHY_KOMI_PLAYOUTS == 200

\* initial value of komi_ratchet, in points: no bound recorded
RatchetNone == 1000

\* outcome of a constructor: status is "ok" (strategy returned), "exit"
\* (message on stderr, exit(1)) or "crash" (NULL dereferenced)
Built(st, dd, ll, aa) == [status |-> st, d |-> dd, l |-> ll, a |-> aa]

----------------------------------------------------------------------------
(* NONE strategy *)

\* variant: line 36 as if it tested the text for emptiness, if (arg && *arg)
uct_dynkomi_init_none_noempty(arg) ==
    LET dd == [permove |-> "NULL", persim |-> "NULL", done |-> "generic_done",
               data |-> "NULL"]
    IN  IF ~arg.isNull /\ arg.text # <<>>
        THEN Built("exit", NullStrategy, LinearZero, AdaptiveZero)
        ELSE Built("ok", dd, LinearZero, AdaptiveZero)

\* lines 26-42
uct_dynkomi_init_none(arg) ==
    LET dd == [permove |-> "NULL", persim |-> "NULL", done |-> "generic_done",
               data |-> "NULL"]
    IN  IF ~arg.isNull
        THEN Built("exit", NullStrategy, LinearZero, AdaptiveZero)
        ELSE Built("ok", dd, LinearZero, AdaptiveZero)

----------------------------------------------------------------------------
(* LINEAR strategy: construction *)

\* One pass of the option loop (lines 104-126) on optspec t
linear_option(ll, t) ==
    IF strcasecmp(t.name, "moves") = 0 /\ t.eq
    THEN [ok |-> TRUE, l |-> [ll EXCEPT !.moves = atoi(t.val)]]
    ELSE IF strcasecmp(t.name, "handicap_value") = 0 /\ t.eq
    THEN [ok |-> TRUE, l |-> [ll EXCEPT !.handicap_value = atoi(t.val)]]
    ELSE IF strcasecmp(t.name, "rootbased") = 0
    THEN [ok |-> TRUE, l |-> [ll EXCEPT !.rootbased = (~t.eq \/ atoi(t.val) # 0)]]
    ELSE [ok |-> FALSE, l |-> ll]

\* while (*next) of lines 99 and 377: the loop ends where no text is left,
\* which is also the case after a ':' that ends the text
AtEnd(text, i) == i > Len(text) \/ (i = Len(text) /\ text[i] = Opt(""))

\* The option loop (lines 99-127) from optspec i on
RECURSIVE linear_options(_, _, _)
linear_options(ll, text, i) ==
    IF AtEnd(text, i) THEN [ok |-> TRUE, l |-> ll]
    ELSE LET r == linear_option(ll, text[i])
         IN  IF r.ok THEN linear_options(r.l, text, i + 1) ELSE r

uct_dynkomi_init_linear(arg, b) ==
    LET dd == [permove |-> "linear_permove", persim |-> "linear_persim",
               done |-> "generic_done", data |-> "l"]
        l0 == [LinearZero EXCEPT
                 !.moves = IF b.size - 2 >= 19 THEN 200 ELSE 0,
                 !.handicap_value = 7]
        r == IF arg.isNull THEN [ok |-> TRUE, l |-> l0]
             ELSE linear_options(l0, arg.text, 1)
    IN  IF r.ok THEN Built("ok", dd, r.l, AdaptiveZero)
        ELSE Built("exit", NullStrategy, LinearZero, AdaptiveZero)

----------------------------------------------------------------------------
(* ADAPTIVE strategy: construction *)

\* strcasecmp(optval, ...) with optval NULL (line 395) is undefined: the
\* process is killed on the NULL read, or the C library rejects the NULL and
\* reports a mismatch
NullCompare == {"crash", "mismatch"}

Parsed(st, aa) == [st |-> st, a |-> aa]

\* One pass of the option loop (lines 382-452) on optspec t; ub is the outcome
\* of the undefined comparison
adaptive_option(aa, t, ub) ==
    IF strcasecmp(t.name, "lead_moves") = 0 /\ t.eq
    THEN Parsed("ok", [aa EXCEPT !.lead_moves = atoi(t.val)])
    ELSE IF strcasecmp(t.name, "max_losing_komi") = 0 /\ t.eq
    THEN Parsed("ok", [aa EXCEPT !.max_losing_komi = atof(t.val)])
    ELSE IF strcasecmp(t.name, "indicator") = 0
    THEN IF ~t.eq
         THEN (IF ub = "crash" THEN Parsed("crash", aa) ELSE Parsed("exit", aa))
         ELSE IF strcasecmp(t.val, "value") = 0
         THEN Parsed("ok", [aa EXCEPT !.indicator = "komi_by_value"])
         ELSE IF strcasecmp(t.val, "score") = 0
         THEN Parsed("ok", [aa EXCEPT !.indicator = "komi_by_score"])
         ELSE Parsed("exit", aa)
    ELSE IF strcasecmp(t.name, "zone_red") = 0 /\ t.eq
    THEN Parsed("ok", [aa EXCEPT !.zone_red = atof(t.val)])
    ELSE IF strcasecmp(t.name, "zone_green") = 0 /\ t.eq
    THEN Parsed("ok", [aa EXCEPT !.zone_green = atof(t.val)])
    ELSE IF strcasecmp(t.name, "score_step") = 0 /\ t.eq
    THEN Parsed("ok", [aa EXCEPT !.score_step = atoi(t.val)])
    ELSE IF strcasecmp(t.name, "score_step_byavg") = 0 /\ t.eq
    THEN Parsed("ok", [aa EXCEPT !.score_step_byavg = atof(t.val)])
    ELSE IF strcasecmp(t.name, "use_komi_ratchet") = 0
    THEN Parsed("ok", [aa EXCEPT !.use_komi_ratchet = (~t.eq \/ atoi(t.val) # 0)])
    ELSE IF strcasecmp(t.name, "komi_ratchet_age") = 0 /\ t.eq
    THEN Parsed("ok", [aa EXCEPT !.komi_ratchet_maxage = atoi(t.val)])
    ELSE IF strcasecmp(t.name, "adapter") = 0 /\ t.eq
    THEN IF strcasecmp(t.val, "sigmoid") = 0
         THEN Parsed("ok", [aa EXCEPT !.adapter = "adapter_sigmoid"])
         ELSE IF strcasecmp(t.val, "linear") = 0
         THEN Parsed("ok", [aa EXCEPT !.adapter = "adapter_linear"])
         ELSE Parsed("exit", aa)
    ELSE IF strcasecmp(t.name, "adapt_base") = 0 /\ t.eq
    THEN Parsed("ok", [aa EXCEPT !.adapt_base = atof(t.val)])
    ELSE IF strcasecmp(t.name, "adapt_rate") = 0 /\ t.eq
    THEN Parsed("ok", [aa EXCEPT !.adapt_rate = atof(t.val)])
    ELSE IF strcasecmp(t.name, "adapt_phase") = 0 /\ t.eq
    THEN Parsed("ok", [aa EXCEPT !.adapt_phase = atof(t.val)])
    ELSE IF strcasecmp(t.name, "adapt_moves") = 0 /\ t.eq
    THEN Parsed("ok", [aa EXCEPT !.adapt_moves = atoi(t.val)])
    ELSE IF strcasecmp(t.name, "adapt_aport") = 0
    THEN Parsed("ok", [aa EXCEPT !.adapt_aport = (~t.eq \/ atoi(t.val) # 0)])
    ELSE IF strcasecmp(t.name, "adapt_dir") = 0 /\ t.eq
    THEN Parsed("ok", [aa EXCEPT !.adapt_dir = atof(t.val)])
    ELSE Parsed("exit", aa)

\* The option loop (lines 377-453) from optspec i on
RECURSIVE adaptive_options(_, _, _, _)
adaptive_options(aa, text, i, ub) ==
    IF AtEnd(text, i) THEN Parsed("ok", aa)
    ELSE LET r == adaptive_option(aa, text[i], ub)
         IN  IF r.st = "ok" THEN adaptive_options(r.a, text, i + 1, ub) ELSE r

\* The defaults of lines 355-373
AdaptiveDefaults(b) ==
    [AdaptiveZero EXCEPT
       !.lead_moves = IF b.size - 2 >= 19 THEN 20 ELSE 4,
       !.max_losing_komi = 10 * Scale,
       !.indicator = "komi_by_score",
       !.adapter = "adapter_sigmoid",
       !.adapt_rate = 20 * Scale,
       !.adapt_phase = Scale \div 2,
       !.adapt_moves = 200,
       !.adapt_dir = -(Scale \div 2),
       !.zone_red = (45 * Scale) \div 100,
       !.zone_green = (6 * Scale) \div 10,
       !.score_step = 2,
       !.use_komi_ratchet = TRUE,
       !.komi_ratchet_maxage = 0,
       !.komi_ratchet = RatchetNone * Scale]

uct_dynkomi_init_adaptive(arg, b, ub) ==
    LET dd == [permove |-> "adaptive_permove", persim |-> "adaptive_persim",
               done |-> "generic_done", data |-> "a"]
        r == IF arg.isNull THEN Parsed("ok", AdaptiveDefaults(b))
             ELSE adaptive_options(AdaptiveDefaults(b), arg.text, 1, ub)
    IN  IF r.st = "ok" THEN Built("ok", dd, LinearZero, r.a)
        ELSE Built(r.st, NullStrategy, LinearZero, AdaptiveZero)

----------------------------------------------------------------------------
(* Construction as a state machine: the dispatcher calls one constructor *)

\* longest option text of the construction runs, in optspecs
MaxOptspecs == 2

NoCall == [op |-> "none"]

\* history of the zone evaluations: run counts the ratchet-limited green-zone
\* evaluations in a row, expired tells that the last one expired the ratchet,
\* clamped counts the evaluations limited by the bound since it was recorded
NoHist == [run |-> 0, expired |-> FALSE, clamped |-> 0]

\* no evaluation is under way and no simulation is updating a statistic;
\* pc is the controller's position in komi_by_score() or komi_by_value(),
\* snapshot its local copy of the statistic, wpc and reg the position and
\* the register of a simulation worker that is adding a sample; added,
\* consumed, resets and torn are the history of the samples
NoRace == [pc |-> "idle", snapshot |-> StatsZero, wpc |-> "idle", reg |-> 0,
           added |-> 0, consumed |-> 0, resets |-> 0, torn |-> FALSE]

\* An empty board before the first move: board_size() counts the border, flen
\* is the number of free points
NewBoard(size, handicap, komi) ==
    [size |-> size, moves |-> 0, handicap |-> handicap, komi |-> komi,
     flen |-> (size - 2) * (size - 2) - handicap]

\* the boards the constructors are run on: 9x9 and 19x19
SetupBoards == {NewBoard(11, 0, 7 * Scale + Scale \div 2), NewBoard(21, 0, 7 * Scale + Scale \div 2)}

OptNames ==
    {"moves", "handicap_value", "rootbased",
     "lead_moves", "max_losing_komi", "indicator", "zone_red", "zone_green",
     "score_step", "score_step_byavg", "use_komi_ratchet", "komi_ratchet_age",
     "adapter", "adapt_base", "adapt_rate", "adapt_phase", "adapt_moves",
     "adapt_aport", "adapt_dir",
     "MOVES", "Indicator", "bogus", ""}

OptVals == {"1", "0", "value", "linear", ""}

Optspecs ==
    {Opt(n) : n \in OptNames} \cup {OptVal(n, v) : n \in OptNames, v \in OptVals}

\* optspecs that fill the rest of a longer option text
CommonOptspecs ==
    {Opt("rootbased"), OptVal("moves", "1"), OptVal("indicator", "value"),
     Opt("use_komi_ratchet")}

\* the texts of exactly k optspecs: any optspec at one place, common ones at
\* the others
TextsOf(k) ==
    UNION {{[i \in 1..k |-> IF i = p THEN o ELSE c[i]] :
               o \in Optspecs, c \in [1..k -> CommonOptspecs]} : p \in 1..k}

\* the option texts a constructor is run on: NULL, the empty text, and the
\* texts of up to MaxOptspecs optspecs
Args == {NullArg, Arg(<<>>)} \cup {Arg(t) : t \in UNION {TextsOf(k) : k \in 1..MaxOptspecs}}

InitConfig ==
    /\ status = "start"
    /\ d = NullStrategy
    /\ l = LinearZero
    /\ a = AdaptiveZero
    /\ score = StatsZero
    /\ value = StatsZero
    /\ tree = [extra_komi |-> 0, root_color |-> S_BLACK]
    /\ board \in SetupBoards
    /\ call = NoCall
    /\ hist = NoHist
    /\ race = NoRace

Construct(op, arg, r) ==
    /\ status' = r.status
    /\ d' = r.d
    /\ l' = r.l
    /\ a' = r.a
    /\ call' = [op |-> op, arg |-> arg]
    /\ UNCHANGED <<score, value, tree, board, hist, race>>

InitNone ==
    /\ status = "start"
    /\ \E arg \in Args : Construct("uct_dynkomi_init_none", arg, uct_dynkomi_init_none(arg))

InitLinear ==
    /\ status = "start"
    /\ \E arg \in Args :
         Construct("uct_dynkomi_init_linear", arg, uct_dynkomi_init_linear(arg, board))

InitAdaptive ==
    /\ status = "start"
    /\ \E arg \in Args, ub \in NullCompare :
         Construct("uct_dynkomi_init_adaptive", arg,
                   uct_dynkomi_init_adaptive(arg, board, ub))

NextConfig == InitNone \/ InitLinear \/ InitAdaptive

SpecConfig == InitConfig /\ [][NextConfig]_vars

----------------------------------------------------------------------------
(* Construction: properties *)

LinearOptNames == {"moves", "handicap_value", "rootbased"}

AdaptiveOptNames ==
    {"lead_moves", "max_losing_komi", "indicator", "zone_red", "zone_green",
     "score_step", "score_step_byavg", "use_komi_ratchet", "komi_ratchet_age",
     "adapter", "adapt_base", "adapt_rate", "adapt_phase", "adapt_moves",
     "adapt_aport", "adapt_dir"}

ValueRequiringOptNames ==
    {"moves", "handicap_value", "lead_moves", "max_losing_komi", "indicator",
     "zone_red", "zone_green", "score_step", "score_step_byavg",
     "komi_ratchet_age", "adapter", "adapt_base", "adapt_rate", "adapt_phase",
     "adapt_moves", "adapt_dir"}

\* optspec t names no option of the variant, or a value-requiring option
\* without '=value'; the optspecs of a text are those the loop reads
BadOptspec(t, known) ==
    \/ ToLower(t.name) \notin known
    \/ ToLower(t.name) \in ValueRequiringOptNames /\ ~t.eq

HasBadOptspec(op) ==
    /\ call.op = op
    /\ ~call.arg.isNull
    /\ \E i \in 1..Len(call.arg.text) :
         /\ ~AtEnd(call.arg.text, i)
         /\ BadOptspec(call.arg.text[i],
                    IF op = "uct_dynkomi_init_linear" THEN LinearOptNames
                    ELSE AdaptiveOptNames)

\* C7: constructing the Scheduled or the Adaptive variant with an option
\* text in which some optspec has an unrecognized name, or names a
\* value-requiring option without '=value', always ends in the fatal
\* configuration error (message, exit) and returns no strategy.
C7_ConfigErrorIsFatalExit ==
    (HasBadOptspec("uct_dynkomi_init_linear") \/ HasBadOptspec("uct_dynkomi_init_adaptive"))
        => (status = "exit" /\ d = NullStrategy)

\* C8: uct_dynkomi_init_none exits with the configuration error whenever an
\* option text is supplied (arg is not NULL, the empty text included), and
\* returns a strategy without data and without operations only when arg is
\* NULL.
C8_NoneAcceptsNoArguments ==
    call.op = "uct_dynkomi_init_none" =>
        /\ ~call.arg.isNull => (status = "exit" /\ d = NullStrategy)
        /\ call.arg.isNull =>
             /\ status = "ok"
             /\ d = [permove |-> "NULL", persim |-> "NULL",
                     done |-> "generic_done", data |-> "NULL"]
             /\ l = LinearZero /\ a = AdaptiveZero

\* the empty option text was supplied to the NONE constructor, which exited
C8_Witness ==
    /\ call.op = "uct_dynkomi_init_none"
    /\ call.arg = Arg(<<>>)
    /\ status = "exit"

----------------------------------------------------------------------------
(* LINEAR strategy: operations *)

\* variant: line 60 with > for >=
linear_permove_gt(ll, b) ==
    IF b.moves > ll.moves THEN 0
    ELSE LET base_komi == board_effective_handicap(b, ll.handicap_value)
         IN  FDiv(base_komi * (ll.moves - b.moves), ll.moves)

\* lines 56-66
linear_permove(ll, b) ==
    IF b.moves >= ll.moves THEN 0
    ELSE LET base_komi == board_effective_handicap(b, ll.handicap_value)
         IN  FDiv(base_komi * (ll.moves - b.moves), ll.moves)

\* variant: the cached value of the tree whatever rootbased is
linear_persim_cached(ll, b, t) == t.extra_komi

\* lines 68-79
linear_persim(ll, b, t) ==
    IF ll.rootbased THEN t.extra_komi
    ELSE linear_permove(ll, b)

----------------------------------------------------------------------------
(* The LINEAR strategy in a game *)

\* moves played on the board at most: in a game of the LINEAR strategy, and
\* in one of the ADAPTIVE strategy
MaxLinearMoves == 3

MaxMoves == 1

\* depth of a tree node below the root at most
MaxDepth == 2

\* option texts of the strategies run in a game
LinearRunArgs ==
    {NullArg,
     Arg(<<OptVal("moves", "0")>>),
     Arg(<<OptVal("moves", "-1")>>),
     Arg(<<OptVal("moves", "1")>>),
     Arg(<<OptVal("moves", "3")>>),
     Arg(<<OptVal("moves", "4")>>),
     Arg(<<OptVal("moves", "4"), OptVal("handicap_value", "0")>>),
     Arg(<<OptVal("moves", "4"), OptVal("handicap_value", "3")>>),
     Arg(<<OptVal("moves", "4"), OptVal("handicap_value", "-1")>>),
     Arg(<<OptVal("moves", "3"), Opt("rootbased")>>),
     Arg(<<OptVal("moves", "4"), OptVal("rootbased", "1")>>),
     Arg(<<OptVal("MOVES", "2"), OptVal("rootbased", "0")>>)}

\* boards at the start of a game: size, handicap stones, komi
GameBoards ==
    {NewBoard(sz, h, k) :
        sz \in {11, 21}, h \in {0, 2, 3},
        k \in {Scale \div 2, 6 * Scale, 7 * Scale + Scale \div 2, 9 * Scale + Scale \div 2}}

\* the board as it is k moves later: at a node k moves below the root
NodeBoard(b, k) == [b EXCEPT !.moves = @ + k, !.flen = @ - k]

InitLinearGame ==
    /\ board \in GameBoards
    /\ \E arg \in LinearRunArgs :
         LET r == uct_dynkomi_init_linear(arg, board)
         IN  /\ r.status = "ok"
             /\ status = r.status
             /\ d = r.d
             /\ l = r.l
             /\ a = r.a
    /\ score = StatsZero
    /\ value = StatsZero
    /\ tree \in {[extra_komi |-> 0, root_color |-> c] : c \in Colors}
    /\ call = NoCall
    /\ hist = NoHist
    /\ race = NoRace

\* the tree-wide extra komi is the value the most recent permove returned
TreeSetExtraKomi(ret) == tree' = [tree EXCEPT !.extra_komi = ret]

\* the search calls d->permove(d, b, tree) before a move and keeps the value
LinearPermove ==
    /\ d.permove = "linear_permove"
    /\ LET ret == linear_permove(l, board)
       IN  /\ call' = [op |-> "linear_permove", moves |-> board.moves, ret |-> ret]
           /\ TreeSetExtraKomi(ret)
    /\ UNCHANGED <<status, d, l, a, score, value, board, hist, race>>

\* a simulation calls d->persim(d, b, tree, node) at a node of the tree
LinearPersim ==
    /\ d.persim = "linear_persim"
    /\ \E k \in 0..MaxDepth :
         call' = [op |-> "linear_persim", moves |-> board.moves + k,
                  ret |-> linear_persim(l, NodeBoard(board, k), tree)]
    /\ UNCHANGED <<status, d, l, a, score, value, tree, board, hist, race>>

\* a move is played, up to most moves: the root of the tree moves on to the
\* other colour
Play(most) ==
    /\ status = "ok"
    /\ board.moves < most
    /\ board' = NodeBoard(board, 1)
    /\ tree' = [tree EXCEPT !.root_color = stone_other(@)]
    /\ UNCHANGED <<status, d, l, a, score, value, call, hist, race>>

LinearBoardPlay == Play(MaxLinearMoves)

NextLinear == LinearPermove \/ LinearPersim \/ LinearBoardPlay

SpecLinear == InitLinearGame /\ [][NextLinear]_vars

----------------------------------------------------------------------------
(* LINEAR strategy: properties *)

IsFinite(x) == x \notin {FloatNaN, FloatInf, -FloatInf}

\* C9: for every configured move budget l.moves (0 and negative included)
\* and every number of played moves >= l.moves, linear_permove returns
\* exactly 0; no call divides by a budget of 0, so every result is a finite
\* number.
C9_ZeroFromBudgetOn ==
    call.op = "linear_permove" =>
        /\ call.moves >= l.moves => call.ret = 0
        /\ IsFinite(call.ret)

\* linear_permove was called on a board with a non-zero handicap-derived
\* komi with a move budget of 0 and no move played, and returned 0
C9_Witness ==
    /\ call.op = "linear_permove"
    /\ l.moves = 0
    /\ call.moves = 0
    /\ board_effective_handicap(board, l.handicap_value) # 0
    /\ call.ret = 0

BaseKomi == board_effective_handicap(board, l.handicap_value)

\* two calls of linear_permove in a row, the later with more moves played
\* and still below the budget
LaterCallBelowBudget ==
    /\ call.op = "linear_permove"
    /\ call'.op = "linear_permove"
    /\ call.moves < call'.moves
    /\ call'.moves < l.moves

StartsAtBaseKomi ==
    (call'.op = "linear_permove" /\ call'.moves = 0 /\ 0 < l.moves)
        => call'.ret = BaseKomi

\* the handicap-derived komi is the number of handicap stones times the
\* stone value: a handicap game at the komi of half a point
StoneCountKomi ==
    /\ board.handicap # 0
    /\ board.komi = Scale \div 2
    /\ BaseKomi = board.handicap * l.handicap_value * Scale

\* C10, no more than invariant I4 asks of it: on a fixed board whose
\* handicap-derived komi is the stone count times the stone value, and for
\* played in [0, l.moves), linear_permove never returns more than it
\* returned with fewer moves played, and it equals the handicap-derived
\* komi at played = 0.
C10_NonIncreasing ==
    [][/\ (LaterCallBelowBudget /\ StoneCountKomi) => call'.ret <= call.ret
       /\ StartsAtBaseKomi]_vars

\* C14: linear_persim returns the extra komi of the tree when rootbased is
\* set; when it is not set it returns what linear_permove returns on the
\* board at the node, whatever the tree holds, so that a node keeps its
\* value when moves are played and its subtree becomes the root: two calls
\* in a row, of persim or of permove at the root, for the same number of
\* moves return the same value.
C14_PersimAtNodeDepth ==
    [][LinearPersim =>
          /\ l.rootbased => call'.ret = tree.extra_komi
          /\ ~l.rootbased =>
               /\ call'.ret = linear_permove(l, [board EXCEPT !.moves = call'.moves])
               /\ (call.op \in {"linear_persim", "linear_permove"}
                      /\ call.moves = call'.moves) => call'.ret = call.ret]_vars

\* without rootbased, persim returned for a node below the root a non-zero
\* value other than the non-zero value the tree holds for the root
C14_Witness ==
    /\ call.op = "linear_persim"
    /\ ~l.rootbased
    /\ call.moves > board.moves
    /\ tree.extra_komi # 0
    /\ call.ret # 0
    /\ call.ret # tree.extra_komi

----------------------------------------------------------------------------
(* ADAPTIVE strategy: adaptation rate *)

\* least number of moves the board estimates to be left
MIN_MOVES_LEFT == 30

\* moves left until about a quarter of the points remains free, two free
\* points per own move
board_estimated_moves_left(b) ==
    LET total_points == (b.size - 2) * (b.size - 2)
        moves_left == (b.flen - total_points \div 4) \div 2
    IN  IF moves_left > MIN_MOVES_LEFT THEN moves_left ELSE MIN_MOVES_LEFT

\* the unit of the floats the code never prints or stores on the grid (the
\* adaptation rate p of lines 180-231 and the argument of exp()): 1.0 is Fine
Fine == 1000000

\* the unit of the fixed-point values of exp(): 1.0 is ExpUnit, the square
\* of ExpHalf
ExpUnit == 100000000

ExpHalf == 10000

\* exp(-n) at n = 0, 1, ..., 19, in units of 1 / ExpUnit
ExpOnes ==
     <<100000000, 36787944, 13533528, 4978707, 1831564, 673795, 247875,
       91188, 33546, 12341, 4540, 1670, 614, 226, 83, 31, 11, 4, 2, 1>>

\* exp(-n / 10) at n = 0, 1, ..., 9
ExpTenths ==
     <<100000000, 90483742, 81873075, 74081822, 67032005, 60653066,
       54881164, 49658530, 44932896, 40656966>>

\* exp(-n / 100) at n = 0, 1, ..., 9
ExpHundredths ==
     <<100000000, 99004983, 98019867, 97044553, 96078944, 95122942,
       94176453, 93239382, 92311635, 91393119>>

\* exp(-n / 1000) at n = 0, 1, ..., 9
ExpThousandths ==
     <<100000000, 99900050, 99800200, 99700450, 99600799, 99501248,
       99401796, 99302444, 99203191, 99104038>>

\* exp(-n / 10000) at n = 0, 1, ..., 9
ExpTenThousandths ==
     <<100000000, 99990000, 99980002, 99970004, 99960008, 99950012,
       99940018, 99930024, 99920032, 99910040>>

\* exp(-n / 100000) at n = 0, 1, ..., 9
ExpHundredThousandths ==
     <<100000000, 99999000, 99998000, 99997000, 99996000, 99995000,
       99994000, 99993000, 99992000, 99991000>>

\* exp(-n / 1000000) at n = 0, 1, ..., 9
ExpMillionths ==
     <<100000000, 99999900, 99999800, 99999700, 99999600, 99999500,
       99999400, 99999300, 99999200, 99999100>>

\* the product of two values in units of 1 / ExpUnit, rounded; the factors
\* are split at ExpHalf to keep every intermediate within 32 bits
ExpMul(p, q) ==
    LET ph == p \div ExpHalf
        pl == p % ExpHalf
        qh == q \div ExpHalf
        ql == q % ExpHalf
    IN  ph * qh + DivRound(ph * ql + pl * qh + DivRound(pl * ql, ExpHalf),
                           ExpHalf)

\* the tables of the six decimals, the millionths first
ExpDecimals ==
    <<ExpMillionths, ExpHundredThousandths, ExpTenThousandths,
      ExpThousandths, ExpHundredths, ExpTenths>>

\* exp(-m / 10^(7-k)) of a natural m whose last 7 - k decimals are the
\* decimals k, ..., 6 of the argument, in units of 1 / ExpUnit: the product
\* of the exponentials of the decimal digits
RECURSIVE ExpDigits(_, _)
ExpDigits(m, k) ==
    IF k = 7 THEN ExpOnes[m + 1]
    ELSE ExpMul(ExpDecimals[k][(m % 10) + 1], ExpDigits(m \div 10, k + 1))

\* exp(-m / Fine) of a natural m, in units of 1 / ExpUnit
ExpNeg(m) == IF m \div Fine >= 20 THEN 0 ELSE ExpDigits(m, 1)

\* r / den to k decimals for 0 <= r < den, as a natural number of units of
\* 10^-k, rounded: long division, one decimal at a time
RECURSIVE DivDigits(_, _, _)
DivDigits(r, den, k) ==
    IF k = 0 THEN (IF 2 * r >= den THEN 1 ELSE 0)
    ELSE ((10 * r) \div den) * (10 ^ (k - 1))
             + DivDigits((10 * r) % den, den, k - 1)

\* line 198: 1.0 / (1.0 + exp(-x)), x and the result in units of 1 / Fine;
\* with e = exp(-|x|) it is 1 - e / (1 + e) for x >= 0 and e / (1 + e) for
\* x < 0
Sigmoid(x) ==
    LET e == ExpNeg(Abs(x))
        low == DivDigits(e, ExpUnit + e, 6)
    IN  IF x >= 0 THEN Fine - low ELSE low

\* lines 180-199: the adaptation rate of the sigmoid adapter, in units of
\* 1 / Fine.  l = game_portion - adapt_phase is the fraction num / den of
\* thousandths, and adapt_rate * l is computed from its whole and its
\* fractional part without rounding l first
adapter_sigmoid(aa, b) ==
    LET total_moves == b.moves + 2 * board_estimated_moves_left(b)
        brsize == b.size - 2
        den == IF ~aa.adapt_aport THEN total_moves ELSE brsize * brsize
        num == IF ~aa.adapt_aport
               THEN b.moves * Scale - aa.adapt_phase * den
               ELSE (den - b.flen) * Scale - aa.adapt_phase * den
        x == aa.adapt_rate * (num \div den)
                 + DivRound(aa.adapt_rate * (num % den), den)
    IN  Sigmoid(x)

\* lines 201-214: the adaptation rate of the linear adapter, in units of
\* 1 / Fine
adapter_linear(aa, b) ==
    IF b.moves > aa.adapt_moves THEN 0
    ELSE IF aa.adapt_dir < 0
    THEN LET q == FDiv((-aa.adapt_dir) * b.moves * (Fine \div Scale),
                       aa.adapt_moves)
         IN  IF q = FloatNaN THEN FloatNaN ELSE Fine - q
    ELSE FDiv(aa.adapt_dir * b.moves * (Fine \div Scale), aa.adapt_moves)

\* p * x of a rate p in units of 1 / Fine and a fixed-point float x, to the
\* grid; p is split at the thousandth to keep the products within 32 bits
FineMul(p, x) ==
    LET unit == Fine \div Scale
        ph == Abs(p) \div unit
        pl == Abs(p) % unit
    IN  Sgn(p) * Sgn(x)
            * DivRound(ph * Abs(x) + DivRound(pl * Abs(x), unit), Scale)

\* a->adapter(d, b)
adapter(aa, b) ==
    IF aa.adapter = "adapter_linear" THEN adapter_linear(aa, b)
    ELSE adapter_sigmoid(aa, b)

----------------------------------------------------------------------------
(* ADAPTIVE strategy: indicators *)

\* what an operation returns and leaves behind in the strategy
Eval(ret, aa, sc, val) == [ret |-> ret, a |-> aa, score |-> sc, value |-> val]

\* variant: the threshold one sample lower
untrusted_below_199(stats) == stats.playouts < TRUSTWORTHY_KOMI_PLAYOUTS - 1

\* variant: only a statistic without any sample is not trusted
untrusted_empty(stats) == stats.playouts < 1

\* lines 220 and 241: too few playouts to trust the statistic
untrusted(stats) == stats.playouts < TRUSTWORTHY_KOMI_PLAYOUTS

\* variant: line 225 as a reset to no sample and no mean
komi_by_score_hardreset(aa, sc, val, t, b, color) ==
    IF untrusted(sc)
    THEN Eval(t.extra_komi, aa, sc, val)
    ELSE LET snapshot == sc
             sc1 == StatsZero
             p0 == adapter(aa, b)
             p1 == aa.adapt_base * (Fine \div Scale)
                       + DivRound(p0 * (Scale - aa.adapt_base), Scale)
             p == IF p1 > (9 * Fine) \div 10 THEN (9 * Fine) \div 10 ELSE p1
         IN  IF p0 = FloatNaN THEN Eval(FloatNaN, aa, sc1, val)
             ELSE Eval(t.extra_komi + FineMul(p, snapshot.value), aa, sc1, val)

\* lines 216-235
komi_by_score(aa, sc, val, t, b, color) ==
    IF untrusted(sc)
    THEN Eval(t.extra_komi, aa, sc, val)
    ELSE LET snapshot == sc
             sc1 == [sc EXCEPT !.playouts = 1]
             p0 == adapter(aa, b)
             p1 == aa.adapt_base * (Fine \div Scale)
                       + DivRound(p0 * (Scale - aa.adapt_base), Scale)
             p == IF p1 > (9 * Fine) \div 10 THEN (9 * Fine) \div 10 ELSE p1
         IN  IF p0 = FloatNaN THEN Eval(FloatNaN, aa, sc1, val)
             ELSE Eval(t.extra_komi + FineMul(p, snapshot.value), aa, sc1, val)

\* variant: line 303 with >= for >
ratchet_expire_at_maxage(aa) ==
    IF aa.komi_ratchet_maxage > 0 /\ aa.komi_ratchet_age >= aa.komi_ratchet_maxage
    THEN [aa EXCEPT !.komi_ratchet = RatchetNone * Scale, !.komi_ratchet_age = 0]
    ELSE aa

\* variant: line 303 without the test of komi_ratchet_maxage > 0
ratchet_expire_unconfigured(aa) ==
    IF aa.komi_ratchet_age > aa.komi_ratchet_maxage
    THEN [aa EXCEPT !.komi_ratchet = RatchetNone * Scale, !.komi_ratchet_age = 0]
    ELSE aa

\* lines 303-306: the ratchet expires by age
ratchet_expire(aa) ==
    IF aa.komi_ratchet_maxage > 0 /\ aa.komi_ratchet_age > aa.komi_ratchet_maxage
    THEN [aa EXCEPT !.komi_ratchet = RatchetNone * Scale, !.komi_ratchet_age = 0]
    ELSE aa

\* variant: line 307 with > for >=
ratchet_limit_above(aa, komi) ==
    IF aa.use_komi_ratchet /\ komi > aa.komi_ratchet
    THEN [komi |-> aa.komi_ratchet - Scale,
          a |-> [aa EXCEPT !.komi_ratchet_age = @ + 1]]
    ELSE [komi |-> komi, a |-> aa]

\* variant: line 308 stepping back from the bound by a score_step of 2
ratchet_limit_two(aa, komi) ==
    IF aa.use_komi_ratchet /\ komi >= aa.komi_ratchet
    THEN [komi |-> aa.komi_ratchet - 2 * Scale,
          a |-> [aa EXCEPT !.komi_ratchet_age = @ + 1]]
    ELSE [komi |-> komi, a |-> aa]

\* lines 307-310: the ratchet limits the komi given
ratchet_limit(aa, komi) ==
    IF aa.use_komi_ratchet /\ komi >= aa.komi_ratchet
    THEN [komi |-> aa.komi_ratchet - Scale,
          a |-> [aa EXCEPT !.komi_ratchet_age = @ + 1]]
    ELSE [komi |-> komi, a |-> aa]

\* variant: without the colour correction of lines 248-249
komi_by_value_noflip(aa, sc, val, t, b, color) ==
    IF untrusted(val)
    THEN Eval(t.extra_komi, aa, sc, val)
    ELSE LET val1 == [val EXCEPT !.playouts = 1]
             value_value == val.value
             extra_komi == komi_by_color(t.extra_komi, color)
             byavg == aa.score_step_byavg # 0
             sc1 == IF byavg THEN [sc EXCEPT !.playouts = 1] ELSE sc
             score_value == IF color = S_WHITE THEN -sc.value ELSE sc.value
             score_step == IF byavg /\ score_value >= 0
                           THEN RoundMul(score_value, aa.score_step_byavg)
                           ELSE aa.score_step
         IN  IF value_value < aa.zone_red
             THEN LET a1 == IF extra_komi > 0
                            THEN [aa EXCEPT !.komi_ratchet = extra_komi]
                            ELSE aa
                  IN  Eval(komi_by_color(extra_komi - score_step * Scale, color),
                           a1, sc1, val1)
             ELSE IF value_value < aa.zone_green
             THEN Eval(komi_by_color(extra_komi, color), aa, sc1, val1)
             ELSE LET r == ratchet_limit(ratchet_expire(aa),
                                         extra_komi + score_step * Scale)
                  IN  Eval(komi_by_color(r.komi, color), r.a, sc1, val1)

\* lines 237-313
komi_by_value(aa, sc, val, t, b, color) ==
    IF untrusted(val)
    THEN Eval(t.extra_komi, aa, sc, val)
    ELSE LET val1 == [val EXCEPT !.playouts = 1]
             value_value == IF color = S_WHITE THEN Scale - val.value ELSE val.value
             extra_komi == komi_by_color(t.extra_komi, color)
             byavg == aa.score_step_byavg # 0
             sc1 == IF byavg THEN [sc EXCEPT !.playouts = 1] ELSE sc
             score_value == IF color = S_WHITE THEN -sc.value ELSE sc.value
             score_step == IF byavg /\ score_value >= 0
                           THEN RoundMul(score_value, aa.score_step_byavg)
                           ELSE aa.score_step
         IN  IF value_value < aa.zone_red
             THEN \* red zone
                  LET a1 == IF extra_komi > 0
                            THEN [aa EXCEPT !.komi_ratchet = extra_komi]
                            ELSE aa
                  IN  Eval(komi_by_color(extra_komi - score_step * Scale, color),
                           a1, sc1, val1)
             ELSE IF value_value < aa.zone_green
             THEN \* yellow zone
                  Eval(komi_by_color(extra_komi, color), aa, sc1, val1)
             ELSE \* green zone
                  LET r == ratchet_limit(ratchet_expire(aa),
                                         extra_komi + score_step * Scale)
                  IN  Eval(komi_by_color(r.komi, color), r.a, sc1, val1)

\* a->indicator(d, b, tree, color)
indicator(aa, sc, val, t, b, color) ==
    IF aa.indicator = "komi_by_value" THEN komi_by_value(aa, sc, val, t, b, color)
    ELSE komi_by_score(aa, sc, val, t, b, color)

----------------------------------------------------------------------------
(* ADAPTIVE strategy: operations *)

\* the result of permove: komi is what the indicator returned (the result
\* itself in the lead-in phase)
PerMove(komi, e) == [komi |-> komi, ret |-> e.ret, a |-> e.a,
                     score |-> e.score, value |-> e.value]

\* variant: line 323 with < for <=
adaptive_permove_lead_lt(aa, sc, val, t, b) ==
    IF b.moves < aa.lead_moves
    THEN LET h == board_effective_handicap(b, 7)
         IN  PerMove(h, Eval(h, aa, sc, val))
    ELSE LET color == stone_other(t.root_color)
             min_komi == komi_by_color(-aa.max_losing_komi, color)
             e == indicator(aa, sc, val, t, b, color)
             komi == e.ret
         IN  IF komi # FloatNaN /\ komi_by_color(komi - min_komi, color) > 0
             THEN PerMove(komi, e)
             ELSE PerMove(komi, [e EXCEPT !.ret = min_komi])

\* variant: lines 329 and 334 without komi_by_color, the floor in black's frame
adaptive_permove_black_floor(aa, sc, val, t, b) ==
    IF b.moves <= aa.lead_moves
    THEN LET h == board_effective_handicap(b, 7)
         IN  PerMove(h, Eval(h, aa, sc, val))
    ELSE LET color == stone_other(t.root_color)
             min_komi == -aa.max_losing_komi
             e == indicator(aa, sc, val, t, b, color)
             komi == e.ret
         IN  IF komi # FloatNaN /\ komi - min_komi > 0
             THEN PerMove(komi, e)
             ELSE PerMove(komi, [e EXCEPT !.ret = min_komi])

\* lines 315-335
adaptive_permove(aa, sc, val, t, b) ==
    IF b.moves <= aa.lead_moves
    THEN LET h == board_effective_handicap(b, 7)
         IN  PerMove(h, Eval(h, aa, sc, val))
    ELSE LET color == stone_other(t.root_color)
             min_komi == komi_by_color(-aa.max_losing_komi, color)
             e == indicator(aa, sc, val, t, b, color)
             komi == e.ret
         IN  IF komi # FloatNaN /\ komi_by_color(komi - min_komi, color) > 0
             THEN PerMove(komi, e)
             ELSE PerMove(komi, [e EXCEPT !.ret = min_komi])

\* variant: no extra komi in the simulations, as without dynamic komi
adaptive_persim_zero(t) == 0

\* lines 337-341
adaptive_persim(t) == t.extra_komi

----------------------------------------------------------------------------
(* The ADAPTIVE strategy in a game *)

\* samples in a statistic at most
MaxPlayouts == 200

\* extra komi handled at most, in points, either sign
MaxKomi == 8

\* ratchet age at most
MaxAge == 2

AdaptiveRunArgs ==
    {Arg(<<OptVal("lead_moves", "0")>>),
     Arg(<<OptVal("lead_moves", "0"), OptVal("adapter", "linear"),
           OptVal("adapt_moves", "4"), OptVal("max_losing_komi", "3")>>),
     Arg(<<OptVal("lead_moves", "0"), OptVal("indicator", "value"),
           OptVal("max_losing_komi", "3")>>),
     Arg(<<OptVal("lead_moves", "0"), OptVal("indicator", "value"),
           OptVal("max_losing_komi", "3"), OptVal("komi_ratchet_age", "1")>>),
     Arg(<<OptVal("lead_moves", "0"), OptVal("indicator", "value"),
           OptVal("max_losing_komi", "3"), OptVal("komi_ratchet_age", "1"),
           OptVal("score_step_byavg", "0.5")>>),
     Arg(<<OptVal("lead_moves", "0"), OptVal("indicator", "value"),
           OptVal("max_losing_komi", "3"), OptVal("use_komi_ratchet", "0")>>),
     Arg(<<OptVal("lead_moves", "0"), OptVal("indicator", "value"),
           OptVal("score_step", "0")>>)}

\* an even game on 9x9 with komi 3.5
AdaptiveBoards == {NewBoard(11, 0, 3 * Scale + Scale \div 2)}

\* sizes of the batches of samples the simulations add to a statistic
Batches == {TRUSTWORTHY_KOMI_PLAYOUTS - 1, TRUSTWORTHY_KOMI_PLAYOUTS}

\* running means of the win rate (black's) the simulations leave behind
ValueMeans == {(3 * Scale) \div 10, (45 * Scale) \div 100, (6 * Scale) \div 10}

\* running means of the score the simulations leave behind
ScoreMeans == {-4 * Scale, 3 * Scale}

Init ==
    /\ board \in AdaptiveBoards
    /\ \E arg \in AdaptiveRunArgs, ub \in NullCompare :
         LET r == uct_dynkomi_init_adaptive(arg, board, ub)
         IN  /\ r.status = "ok"
             /\ status = r.status
             /\ d = r.d
             /\ l = r.l
             /\ a = r.a
    /\ score = StatsZero
    /\ value = StatsZero
    /\ tree \in {[extra_komi |-> 0, root_color |-> c] : c \in Colors}
    /\ call = NoCall
    /\ hist = NoHist
    /\ race = NoRace

\* the evaluation expired the ratchet: the age was set back
ExpiredIn(aa, aa1) == aa1.komi_ratchet_age < aa.komi_ratchet_age

\* the evaluation was ratchet-limited: the age was counted up, from its old
\* value or from the 0 of an expired ratchet
Limited(aa, aa1) ==
    \/ aa1.komi_ratchet_age = aa.komi_ratchet_age + 1
    \/ ExpiredIn(aa, aa1) /\ aa1.komi_ratchet_age = 1

\* the value indicator evaluates a zone in this call
Evaluates ==
    /\ board.moves > a.lead_moves
    /\ a.indicator = "komi_by_value"
    /\ value.playouts >= TRUSTWORTHY_KOMI_PLAYOUTS

\* the evaluation records a bound: a red zone at a positive local komi
Records ==
    LET color == stone_other(tree.root_color)
        mean == IF color = S_WHITE THEN Scale - value.value ELSE value.value
    IN  /\ Evaluates
        /\ mean < a.zone_red
        /\ komi_by_color(tree.extra_komi, color) > 0

\* the runs stay where the next call of d->permove returns an extra komi of
\* at most MaxKomi points and leaves a ratchet age of at most MaxAge: the
\* simulations and the game stop short of statistics, boards and trees on
\* which it would not
Bounded(r) ==
    /\ r.ret # FloatNaN => Abs(r.ret) <= MaxKomi * Scale
    /\ r.a.komi_ratchet_age <= MaxAge

WithinBounds(sc, val, t, b) == Bounded(adaptive_permove(a, sc, val, t, b))

\* the search calls d->permove(d, b, tree) before, or during, a move
AdaptivePermove ==
    /\ d.permove = "adaptive_permove"
    /\ LET r == adaptive_permove(a, score, value, tree, board)
       IN  /\ a' = r.a
           /\ score' = r.score
           /\ value' = r.value
           /\ call' = [op |-> "adaptive_permove", moves |-> board.moves,
                       color |-> stone_other(tree.root_color),
                       komi |-> r.komi, ret |-> r.ret]
           /\ TreeSetExtraKomi(r.ret)
           /\ hist' = IF ~Evaluates THEN hist
                      ELSE [run |-> IF Limited(a, r.a) THEN hist.run + 1 ELSE 0,
                            expired |-> ExpiredIn(a, r.a),
                            clamped |->
                                IF Records \/ ExpiredIn(a, r.a) THEN 0
                                ELSE IF Limited(a, r.a) THEN hist.clamped + 1
                                ELSE hist.clamped]
    /\ UNCHANGED <<status, d, l, board, race>>

\* a simulation calls d->persim(d, b, tree, node) at a node of the tree
AdaptivePersim ==
    /\ d.persim = "adaptive_persim"
    /\ call' = [op |-> "adaptive_persim", ret |-> adaptive_persim(tree)]
    /\ UNCHANGED <<status, d, l, a, score, value, tree, board, hist, race>>

\* the simulations add the scores of a batch of playouts to d->score
AddScore ==
    /\ status = "ok"
    /\ \E n \in Batches, m \in ScoreMeans :
         LET added == [playouts |-> score.playouts + n, value |-> m]
         IN  /\ added.playouts <= MaxPlayouts
             /\ WithinBounds(added, value, tree, board)
             /\ score' = added
    /\ UNCHANGED <<status, d, l, a, value, tree, board, call, hist, race>>

\* the simulations add the results of a batch of playouts to d->value
AddValue ==
    /\ status = "ok"
    /\ \E n \in Batches, m \in ValueMeans :
         LET added == [playouts |-> value.playouts + n, value |-> m]
         IN  /\ added.playouts <= MaxPlayouts
             /\ WithinBounds(score, added, tree, board)
             /\ value' = added
    /\ UNCHANGED <<status, d, l, a, score, tree, board, call, hist, race>>

\* a move is played in a game of the ADAPTIVE strategy
BoardPlay ==
    /\ WithinBounds(score, value,
                    [tree EXCEPT !.root_color = stone_other(@)],
                    NodeBoard(board, 1))
    /\ Play(MaxMoves)

Next ==
    \/ AdaptivePermove
    \/ AdaptivePersim
    \/ AddScore
    \/ AddValue
    \/ BoardPlay

Spec == Init /\ [][Next]_vars

----------------------------------------------------------------------------
(* ADAPTIVE strategy: properties.  Each is stated on the steps of            *)
(* AdaptivePermove: the unprimed variables are the state the call finds, the *)
(* primed ones the state it leaves, call' its results.                       *)

\* the side the komi is adapted for
Side == stone_other(tree.root_color)

PastLeadIn == board.moves > a.lead_moves

\* the statistic the selected indicator trusts or not
SelectedStat == IF a.indicator = "komi_by_value" THEN value ELSE score

\* the win rate seen from Side
SideMean == IF Side = S_WHITE THEN Scale - value.value ELSE value.value

\* the mean score seen from Side
SideScore == IF Side = S_WHITE THEN -score.value ELSE score.value

RedZone == SideMean < a.zone_red

\* line 297: the else of the red (284) and yellow (293) tests
GreenZone == ~RedZone /\ SideMean >= a.zone_green

\* the extra komi the call finds, seen from Side
LocalKomi == komi_by_color(tree.extra_komi, Side)

\* the step of the call, in fixed point
Step ==
    Scale * (IF a.score_step_byavg # 0 /\ SideScore >= 0
             THEN RoundMul(SideScore, a.score_step_byavg)
             ELSE a.score_step)

\* what the indicator returned, seen from Side
SideKomi == komi_by_color(call'.komi, Side)

\* what permove returned, seen from Side
SideRet == komi_by_color(call'.ret, Side)

GreenEvaluation == AdaptivePermove /\ Evaluates /\ GreenZone

RatchetExpires ==
    a.komi_ratchet_maxage > 0 /\ a.komi_ratchet_age > a.komi_ratchet_maxage

\* C1: with the ratchet enabled, a green-zone evaluation of komi_by_value
\* that does not expire the ratchet by age returns, in the frame of the
\* side, a value strictly below the recorded bound R; a result that would
\* reach or exceed R is returned as R - 1, and the bound stays R.
C1_RatchetBound ==
    [][(GreenEvaluation /\ a.use_komi_ratchet /\ ~RatchetExpires) =>
          /\ SideKomi < a.komi_ratchet
          /\ LocalKomi + Step >= a.komi_ratchet => SideKomi = a.komi_ratchet - Scale
          /\ LocalKomi + Step < a.komi_ratchet => SideKomi = LocalKomi + Step
          /\ a'.komi_ratchet = a.komi_ratchet]_vars

\* a green-zone evaluation was limited to R - 1 by a bound R that a red-zone
\* evaluation had recorded
C1_Witness ==
    /\ call.op = "adaptive_permove"
    /\ hist.run >= 1
    /\ a.use_komi_ratchet
    /\ a.komi_ratchet < RatchetNone * Scale
    /\ komi_by_color(call.komi, call.color) = a.komi_ratchet - Scale

\* C2 as stated: with komi_ratchet_maxage > 0, the green-zone evaluation
\* that follows komi_ratchet_maxage ratchet-limited green-zone evaluations
\* in a row resets the bound to the sentinel and the age to 0 and returns
\* the local komi plus the step.
C2_ExpiryAfterMaxAge ==
    [][(GreenEvaluation /\ a.komi_ratchet_maxage > 0
            /\ hist.run = a.komi_ratchet_maxage) =>
          /\ a'.komi_ratchet = RatchetNone * Scale
          /\ a'.komi_ratchet_age = 0
          /\ SideKomi = LocalKomi + Step]_vars

\* C2 amended: with komi_ratchet_maxage > 0, a green-zone evaluation expires
\* the ratchet exactly when the age exceeds komi_ratchet_maxage, which is
\* the case after komi_ratchet_maxage + 1 ratchet-limited green-zone
\* evaluations in a row; the bound is then reset to the sentinel, the age to
\* 0 and the result is the local komi plus the step.  Up to an age of
\* komi_ratchet_maxage the bound stays and keeps limiting the result.
C2_ExpiryPastMaxAge ==
    [][(GreenEvaluation /\ a.komi_ratchet_maxage > 0) =>
          /\ hist.run > a.komi_ratchet_maxage => RatchetExpires
          /\ RatchetExpires =>
               /\ a'.komi_ratchet = RatchetNone * Scale
               /\ a'.komi_ratchet_age = 0
               /\ SideKomi = LocalKomi + Step
          /\ ~RatchetExpires =>
               /\ a'.komi_ratchet = a.komi_ratchet
               /\ a.use_komi_ratchet => SideKomi < a.komi_ratchet]_vars

\* a green-zone evaluation expired a ratchet and returned a value at or
\* above the bound of before
C2_Witness ==
    /\ call.op = "adaptive_permove"
    /\ hist.expired
    /\ a.komi_ratchet_maxage > 0
    /\ a.komi_ratchet = RatchetNone * Scale
    /\ a.komi_ratchet_age = 0

\* C3 as stated: every call of adaptive_permove returns a value that, in
\* the frame of the side, is not below -max_losing_komi.
C3_FloorAlways ==
    [][AdaptivePermove => SideRet >= -a.max_losing_komi]_vars

\* C3 amended: every call of adaptive_permove past the lead-in phase
\* (b->moves > lead_moves) returns a value that, in the frame of the side,
\* is not below -max_losing_komi, whatever the indicator returns.
C3_FloorPastLeadIn ==
    [][(AdaptivePermove /\ PastLeadIn) => SideRet >= -a.max_losing_komi]_vars

\* the indicator returned less than the floor, and permove the floor
C3_Witness ==
    /\ call.op = "adaptive_permove"
    /\ call.moves > a.lead_moves
    /\ komi_by_color(call.komi, call.color) < -a.max_losing_komi
    /\ komi_by_color(call.ret, call.color) = -a.max_losing_komi

\* C4: when the statistic of the selected indicator has fewer than 200
\* samples, the indicator returns the extra komi of the tree unchanged,
\* whatever the mean, and the call changes neither statistic nor the
\* ratchet bound or age.
C4_TrustThreshold ==
    [][(AdaptivePermove /\ PastLeadIn
            /\ SelectedStat.playouts < TRUSTWORTHY_KOMI_PLAYOUTS) =>
          /\ call'.komi = tree.extra_komi
          /\ score' = score
          /\ value' = value
          /\ a' = a]_vars

\* the value indicator was called with 199 samples of a red-zone mean and
\* left the statistic and the komi alone
C4_Witness ==
    /\ call.op = "adaptive_permove"
    /\ call.moves > a.lead_moves
    /\ call.color = S_BLACK
    /\ a.indicator = "komi_by_value"
    /\ value = [playouts |-> TRUSTWORTHY_KOMI_PLAYOUTS - 1, value |-> (3 * Scale) \div 10]
    /\ call.komi = tree.extra_komi

\* C5: with score_step_byavg non-zero, komi_by_value leaves the score
\* statistic alone (no soft reset) while that statistic has fewer than 200
\* samples, and then steps by score_step.
C5_ScoreTrustInValueIndicator ==
    [][(AdaptivePermove /\ PastLeadIn /\ a.indicator = "komi_by_value"
            /\ a.score_step_byavg # 0
            /\ score.playouts < TRUSTWORTHY_KOMI_PLAYOUTS) =>
          /\ score' = score
          /\ (Evaluates /\ RedZone) => SideKomi = LocalKomi - Scale * a.score_step]_vars

\* C6: adaptive_permove called with b->moves <= lead_moves returns the
\* handicap-derived komi (stone value 7) whatever the statistics hold, and
\* changes neither statistic nor the ratchet bound or age.
C6_LeadIn ==
    [][(AdaptivePermove /\ ~PastLeadIn) =>
          /\ call'.ret = board_effective_handicap(board, 7)
          /\ score' = score
          /\ value' = value
          /\ a' = a]_vars

\* permove was called in the lead-in phase with both statistics trusted and
\* returned the handicap-derived komi
C6_Witness ==
    /\ call.op = "adaptive_permove"
    /\ call.moves = a.lead_moves
    /\ score.playouts >= TRUSTWORTHY_KOMI_PLAYOUTS
    /\ value.playouts >= TRUSTWORTHY_KOMI_PLAYOUTS
    /\ call.ret = board_effective_handicap(board, 7)
    /\ call.ret # 0

\* the bound a green-zone evaluation compares with: the sentinel when the
\* evaluation expires the ratchet, else the recorded bound
BoundInForce ==
    IF RatchetExpires THEN RatchetNone * Scale ELSE a.komi_ratchet

\* the ratchet constrains the result of a green-zone evaluation
RatchetConstrains ==
    a.use_komi_ratchet /\ LocalKomi + Step >= BoundInForce

\* C11: an evaluation of komi_by_value with at least 200 value samples
\* returns, in the frame of the side, the local komi minus the step when
\* the side-corrected mean is below zone_red, the local komi when it is in
\* [zone_red, zone_green) (in the canonical frame exactly the extra komi of
\* the tree, for either side), and the local komi plus the step when it is
\* at least zone_green and the ratchet does not constrain the result.
C11_ZoneDecision ==
    [][(AdaptivePermove /\ Evaluates) =>
          /\ RedZone => SideKomi = LocalKomi - Step
          /\ (~RedZone /\ ~GreenZone) => call'.komi = tree.extra_komi
          /\ (GreenZone /\ ~RatchetConstrains) => SideKomi = LocalKomi + Step]_vars

\* white's evaluation of a black win rate of 0.3, which is 0.7 and green for
\* white, gave 2 points more in white's frame, up to white's komi of 4
C11_Witness ==
    /\ call.op = "adaptive_permove"
    /\ call.moves > a.lead_moves
    /\ call.color = S_WHITE
    /\ a.indicator = "komi_by_value"
    /\ a.score_step_byavg = 0
    /\ value = [playouts |-> 1, value |-> (3 * Scale) \div 10]
    /\ a.komi_ratchet = RatchetNone * Scale
    /\ a.komi_ratchet_age = 0
    /\ call.komi = -4 * Scale

\* C12: adaptive_persim returns the extra komi of the tree and changes
\* nothing: the statistics, the ratchet bound and age and all other fields
\* of the strategy, and the extra komi of the tree are after the call what
\* they were before.
C12_PersimPassthrough ==
    [][AdaptivePersim =>
          /\ call'.ret = tree.extra_komi
          /\ score' = score
          /\ value' = value
          /\ a' = a
          /\ tree' = tree]_vars

\* persim returned the non-zero extra komi that an evaluation had set, with
\* a trusted value statistic and a recorded ratchet bound left in place
C12_Witness ==
    /\ call.op = "adaptive_persim"
    /\ call.ret = tree.extra_komi
    /\ call.ret # 0
    /\ value.playouts >= TRUSTWORTHY_KOMI_PLAYOUTS
    /\ a.komi_ratchet < RatchetNone * Scale

\* the call consumes the score statistic: komi_by_score past its threshold,
\* or komi_by_value past its own with score_step_byavg set
ConsumesScore ==
    /\ PastLeadIn
    /\ \/ a.indicator = "komi_by_score" /\ score.playouts >= TRUSTWORTHY_KOMI_PLAYOUTS
       \/ Evaluates /\ a.score_step_byavg # 0

\* C13: an evaluation that consumes a statistic leaves it with exactly 1
\* sample and the mean it had; no call of permove or persim changes a mean,
\* and none changes a count other than to 1.
C13_SoftReset ==
    [][(AdaptivePermove \/ AdaptivePersim) =>
          /\ (AdaptivePermove /\ ConsumesScore) => score'.playouts = 1
          /\ (AdaptivePermove /\ Evaluates) => value'.playouts = 1
          /\ score'.value = score.value
          /\ value'.value = value.value
          /\ score'.playouts \in {score.playouts, 1}
          /\ value'.playouts \in {value.playouts, 1}]_vars

\* komi_by_score consumed a score statistic of mean 3 and left 1 sample of
\* mean 3
C13_Witness ==
    /\ call.op = "adaptive_permove"
    /\ call.moves > a.lead_moves
    /\ a.indicator = "komi_by_score"
    /\ score = [playouts |-> 1, value |-> 3 * Scale]
    /\ call.ret # 0

\* the step leaves the ratchet bound and age as they are
RatchetUnchanged ==
    /\ a'.komi_ratchet = a.komi_ratchet
    /\ a'.komi_ratchet_age = a.komi_ratchet_age

\* what a step does to the ratchet, but for the green-zone evaluations that
\* the ratchet does not constrain; eval tells that the step is an evaluation
\* of komi_by_value with at least 200 value samples
RatchetFrame(eval) ==
    /\ ~RatchetUnchanged =>
          /\ eval
          /\ (RedZone /\ LocalKomi > 0) \/ GreenZone
    /\ (eval /\ RedZone /\ LocalKomi > 0) =>
          /\ a'.komi_ratchet = LocalKomi
          /\ a'.komi_ratchet_age = a.komi_ratchet_age
    /\ (eval /\ GreenZone) =>
          a'.komi_ratchet = BoundInForce
    /\ (eval /\ GreenZone /\ RatchetConstrains) =>
          a'.komi_ratchet_age = (IF RatchetExpires THEN 0 ELSE a.komi_ratchet_age) + 1
    /\ (a.komi_ratchet_maxage = 0 /\ a.komi_ratchet # RatchetNone * Scale) =>
          a'.komi_ratchet # RatchetNone * Scale

\* C16 as stated: the ratchet bound and age are changed only by evaluations
\* of komi_by_value with at least 200 value samples: a red-zone evaluation
\* with a positive local komi sets the bound and leaves the age, a green-zone
\* evaluation resets both when it expires the ratchet and counts the age up
\* when its result is clamped; every other step, the green-zone evaluations
\* with an unclamped result among them, leaves both unchanged; with
\* komi_ratchet_maxage = 0 the bound is never reset to the sentinel.
C16_UnclampedGreenKeepsRatchet ==
    [][LET eval == Evaluates /\ AdaptivePermove
       IN  /\ RatchetFrame(eval)
           /\ (eval /\ GreenZone /\ ~RatchetConstrains) => RatchetUnchanged]_vars

\* C16 amended: as stated, but a green-zone evaluation with an unclamped
\* result leaves bound and age unchanged only when it does not expire the
\* ratchet; the evaluation that expires it is unclamped (the bound in force
\* is the sentinel) and sets the bound to the sentinel and the age to 0.
C16_RatchetFrame ==
    [][LET eval == Evaluates /\ AdaptivePermove
       IN  /\ RatchetFrame(eval)
           /\ (eval /\ GreenZone /\ ~RatchetConstrains /\ ~RatchetExpires) =>
                 RatchetUnchanged
           /\ (eval /\ GreenZone /\ ~RatchetConstrains /\ RatchetExpires) =>
                 /\ a'.komi_ratchet = RatchetNone * Scale
                 /\ a'.komi_ratchet_age = 0]_vars

\* a red-zone evaluation of black's at a local komi of 0 or less left a
\* recorded bound and a counted age as they were
C16_Witness ==
    /\ call.op = "adaptive_permove"
    /\ call.moves > a.lead_moves
    /\ call.color = S_BLACK
    /\ a.indicator = "komi_by_value"
    /\ a.score_step_byavg = 0
    /\ value = [playouts |-> 1, value |-> (3 * Scale) \div 10]
    /\ call.komi <= -(a.score_step * Scale)
    /\ a.komi_ratchet < RatchetNone * Scale
    /\ a.komi_ratchet_age >= 1

\* C17: a call of adaptive_permove past the lead-in phase, its result stored
\* as the extra komi of the tree, leaves a state in which the next call, with
\* no sample added and the root colour the same, returns the same value and
\* changes neither the statistics nor the ratchet bound or age.
C17_PermoveIdempotent ==
    [][(PastLeadIn /\ AdaptivePermove) =>
          LET again == adaptive_permove(a', score', value', tree', board')
          IN  /\ again.ret = call'.ret
              /\ again.a = a'
              /\ again.score = score'
              /\ again.value = value']_vars

\* permove took black a step of 2 down from 4 on 200 red-zone samples; called
\* again on what it left, it returns the same 2
C17_Witness ==
    /\ call.op = "adaptive_permove"
    /\ call.moves > a.lead_moves
    /\ call.color = S_BLACK
    /\ a.indicator = "komi_by_value"
    /\ value = [playouts |-> 1, value |-> (3 * Scale) \div 10]
    /\ a.komi_ratchet = 4 * Scale
    /\ call.ret = 2 * Scale
    /\ tree.extra_komi = call.ret
    /\ adaptive_permove(a, score, value, tree, board).ret = call.ret

\* every evaluation up to now was made for the side of this call: the call
\* is made on the first move past the lead-in phase
SideConstant == board.moves = a.lead_moves + 1

\* C18 as stated: with the side constant and a step >= 0, a green-zone
\* evaluation of komi_by_value returns, in the frame of the side, a value
\* not lower than the local komi it started from, also when the ratchet
\* clamps the result.
C18_GreenNeverLowers ==
    [][(Evaluates /\ GreenZone /\ Step >= 0 /\ SideConstant /\ AdaptivePermove) =>
          SideKomi >= LocalKomi]_vars

\* C18 amended: with a step >= 0, a green-zone evaluation of komi_by_value
\* returns, in the frame of the side, a value not lower than the local komi
\* it started from unless the ratchet clamps the result; the clamped result
\* is the bound minus 1, which is lower than the local komi exactly when
\* the local komi is above the bound minus 1.
C18_GreenLowersOnlyToBound ==
    [][(Evaluates /\ GreenZone /\ Step >= 0 /\ AdaptivePermove) =>
          /\ ~RatchetConstrains => SideKomi >= LocalKomi
          /\ RatchetConstrains => SideKomi = BoundInForce - Scale
          /\ SideKomi < LocalKomi <=>
                (RatchetConstrains /\ LocalKomi > BoundInForce - Scale)]_vars

\* a green-zone evaluation of black's with score_step = 0 was clamped to 3
\* by the bound of 4 it started at
C18_Witness ==
    /\ call.op = "adaptive_permove"
    /\ call.moves = a.lead_moves + 1
    /\ call.color = S_BLACK
    /\ a.indicator = "komi_by_value"
    /\ a.score_step_byavg = 0
    /\ a.score_step = 0
    /\ value = [playouts |-> 1, value |-> (6 * Scale) \div 10]
    /\ a.komi_ratchet = 4 * Scale
    /\ a.komi_ratchet_age >= 1
    /\ call.komi = 3 * Scale

\* C19: with komi_ratchet_maxage > 0, a green-zone evaluation expires a
\* recorded bound only after more than komi_ratchet_maxage green-zone
\* evaluations were clamped against that bound: the age that triggers the
\* expiry counts the evaluations clamped since the bound was recorded.
C19_AgeOfCurrentBound ==
    [][(Evaluates /\ GreenZone /\ RatchetExpires
            /\ a.komi_ratchet # RatchetNone * Scale /\ AdaptivePermove) =>
          /\ hist.clamped > a.komi_ratchet_maxage
          /\ a.komi_ratchet_age = hist.clamped]_vars

(***************************************************************************)
(* SNAPSHOT AND RESET UNDER CONCURRENT WRITERS                             *)
(*                                                                         *)
(* komi_by_score() and komi_by_value() test the statistic, copy it and     *)
(* set its count to 1 in three separate statements and take no lock.  The  *)
(* simulations add their samples to the same statistic from other          *)
(* threads; a worker's update is a load of the count followed by a store   *)
(* of the count plus one.                                                  *)
(***************************************************************************)

\* samples the worker adds in a run
MaxSamples == 3

\* the statistic the configured indicator consumes
StatOf == IF a.indicator = "komi_by_score" THEN score ELSE value

\* a write to the statistic the configured indicator consumes
WriteStat(s) ==
    IF a.indicator = "komi_by_score"
    THEN score' = s /\ value' = value
    ELSE value' = s /\ score' = score

\* variant: the statistic is emptied
soft_reset_zero(stats) == [stats EXCEPT !.playouts = 0]

\* lines 225 and 246: the statistic is almost reset, to one sample
soft_reset(stats) == [stats EXCEPT !.playouts = 1]

InitRace ==
    /\ board \in AdaptiveBoards
    /\ \E arg \in AdaptiveRunArgs, ub \in NullCompare :
         LET r == uct_dynkomi_init_adaptive(arg, board, ub)
         IN  /\ r.status = "ok"
             /\ status = r.status
             /\ d = r.d
             /\ l = r.l
             /\ a = r.a
    /\ \E n \in Batches, ms \in ScoreMeans, mv \in ValueMeans :
         /\ score = [playouts |-> n, value |-> ms]
         /\ value = [playouts |-> n, value |-> mv]
    /\ tree \in {[extra_komi |-> 0, root_color |-> c] : c \in Colors}
    /\ call = NoCall
    /\ hist = NoHist
    /\ race = [NoRace EXCEPT !.added = StatOf.playouts]

\* the call returns: its results are those of adaptive_permove() on the
\* statistics sc and val
RaceReturn(sc, val) ==
    LET r == adaptive_permove(a, sc, val, tree, board)
    IN  /\ a' = r.a
        /\ call' = [op |-> "adaptive_permove", moves |-> board.moves,
                    color |-> stone_other(tree.root_color),
                    komi |-> r.komi, ret |-> r.ret]
        /\ TreeSetExtraKomi(r.ret)

\* lines 220 and 241: the search calls d->permove(); in the lead-in, and on
\* a statistic that is not trusted, the call returns without a snapshot
RaceCheck ==
    /\ d.permove = "adaptive_permove"
    /\ race.pc = "idle"
    /\ IF board.moves <= a.lead_moves \/ untrusted(StatOf)
       THEN /\ RaceReturn(score, value)
            /\ UNCHANGED <<score, value, race>>
       ELSE /\ race' = [race EXCEPT !.pc = "trusted"]
            /\ UNCHANGED <<a, score, value, tree, call>>
    /\ UNCHANGED <<status, d, l, board, hist>>

\* lines 223 and 244: the statistic is copied to a local
RaceSnapshot ==
    /\ race.pc = "trusted"
    /\ race' = [race EXCEPT !.pc = "copied", !.snapshot = StatOf]
    /\ UNCHANGED <<status, d, l, a, score, value, tree, board, call, hist>>

\* the writes of the rest of the call to the statistics: the statistic the
\* indicator copied is almost reset (225, 246), and komi_by_value leaves
\* d->score as its own code does, almost reset at line 276 when the step is
\* derived from the average score
RaceWrite ==
    IF a.indicator = "komi_by_score"
    THEN /\ score' = soft_reset(score)
         /\ value' = value
    ELSE /\ value' = soft_reset(value)
         /\ score' = adaptive_permove(a, score, race.snapshot, tree, board).score

\* lines 225 and 246, and the rest of the call: the count of the statistic
\* is set to 1 and the komi is computed from the copy
RaceReset ==
    /\ race.pc = "copied"
    /\ IF a.indicator = "komi_by_score"
       THEN RaceReturn(race.snapshot, value)
       ELSE RaceReturn(score, race.snapshot)
    /\ RaceWrite
    /\ race' = [race EXCEPT !.pc = "idle",
                            !.snapshot = StatsZero,
                            !.consumed = @ + race.snapshot.playouts,
                            !.resets = @ + 1,
                            !.torn = @ \/ race.wpc = "loaded"]
    /\ UNCHANGED <<status, d, l, board, hist>>

\* a simulation worker starts to add a sample: it loads the count
WorkerLoad ==
    /\ status = "ok"
    /\ race.wpc = "idle"
    /\ race.added < TRUSTWORTHY_KOMI_PLAYOUTS + MaxSamples
    /\ race' = [race EXCEPT !.wpc = "loaded", !.reg = StatOf.playouts,
                            !.torn = @ \/ race.pc = "copied"]
    /\ UNCHANGED <<status, d, l, a, score, value, tree, board, call, hist>>

\* the worker stores the count it loaded, plus one
WorkerStore ==
    /\ race.wpc = "loaded"
    /\ WriteStat([StatOf EXCEPT !.playouts = race.reg + 1])
    /\ race' = [race EXCEPT !.wpc = "idle", !.reg = 0, !.added = @ + 1,
                            !.torn = @ \/ race.pc = "copied"]
    /\ UNCHANGED <<status, d, l, a, tree, board, call, hist>>

\* a move is played while no evaluation is under way
RacePlay ==
    /\ race.pc = "idle"
    /\ Play(MaxMoves)

NextRace ==
    \/ RaceCheck
    \/ RaceSnapshot
    \/ RaceReset
    \/ WorkerLoad
    \/ WorkerStore
    \/ RacePlay

SpecRace == InitRace /\ [][NextRace]_vars

\* the samples the statistic holds and the snapshots took, the one sample
\* every reset leaves behind taken off
Counted == race.consumed + StatOf.playouts - race.resets

\* C15: the snapshot and the reset are separate steps, so a worker's update
\* can fall between them; as long as no update of a worker overlapped a
\* snapshot+reset pair, every sample added is counted exactly once, in a
\* snapshot or in the count of the statistic.
C15_AtomicPairCountsOnce == ~race.torn => race.added = Counted

\* a lost update: the worker's sample fell between the snapshot and the
\* reset, and is neither in the snapshot nor in the count after the reset
C15_Witness ==
    /\ race.pc = "idle"
    /\ race.wpc = "idle"
    /\ race.torn
    /\ race.resets = 1
    /\ race.consumed = TRUSTWORTHY_KOMI_PLAYOUTS
    /\ StatOf.playouts = 1
    /\ race.added = TRUSTWORTHY_KOMI_PLAYOUTS + 1
    /\ race.added = Counted + 1

====
